---- MODULE Spec2Model ----
(***************************************************************************)
(* HttpEntitiesStateApplier (port_ocean/core/handlers/entities_state_      *)
(* applier/port/applier.py): apply_diff, delete_diff, _safe_delete, upsert *)
(* and delete, as a state machine whose steps are the suspension points of *)
(* the coroutines (one remote call per step).  The collaborators that live *)
(* outside applier.py (diff, identity test, dependency orderer, remote     *)
(* client) follow their contract in sections 3, 4.1, 4.2 and 6 of the      *)
(* specification.                                                          *)
(*                                                                         *)
(* KafkaConsumer (port_ocean/consumers/kafka_consumer.py): start and the   *)
(* signal handler exit_gracefully, as a second state machine (SpecKafka)   *)
(* whose steps are the statements of start between which the handler can   *)
(* run.                                                                    *)
(***************************************************************************)
EXTENDS Integers, Sequences, FiniteSets, TLC

VARIABLES
    op,                                \* the entry point that was invoked
    create_missing_related_entities,   \* event.port_app_config flag
    delete_dependent_entities,         \* event.port_app_config flag
    declared,                          \* identity key -> relation targets (identity keys)
    before,                            \* entities["before"]
    after,                             \* entities["after"]
    pc,                                \* position of the coroutine
    step,                              \* index of the running step of apply_diff
    entities,                          \* upsert: argument
    ordered_created_entities,          \* upsert: rest of the iterator of the for loop
    modified_entities,                 \* upsert: result list
    entities_to_delete,                \* _safe_delete: argument
    entities_to_protect,               \* _safe_delete: argument
    related_entities_refs,             \* _safe_delete: answer of the related lookup
    entities_refs,                     \* delete: argument
    ordered_deleted_entities_refs,     \* delete: rest of the for loop
    calls,                             \* remote calls issued so far, in order
    run,                               \* 1, or 2 when apply_diff was invoked again
    first_written,                     \* the entities upsert returned in the first run
    first_protect,                     \* the refs protected in the first run
    running,                           \* KafkaConsumer.running
    consumer,                          \* KafkaConsumer.consumer: "open" or "closed"
    start_pc,                          \* position of KafkaConsumer.start
    signals,                           \* SIGINT / SIGTERM delivered so far
    msg,                               \* start: what the last poll returned
    attempt,                           \* how _handle_message ended for msg
    commits,                           \* commit calls made for msg
    failures,                          \* kinds of failure logged so far
    misuse                             \* calls made on the closed consumer

vars == <<op, create_missing_related_entities, delete_dependent_entities, declared,
          before, after, pc, step, entities, ordered_created_entities,
          modified_entities, entities_to_delete, entities_to_protect,
          related_entities_refs, entities_refs, ordered_deleted_entities_refs, calls,
          run, first_written, first_protect,
          running, consumer, start_pc, signals, msg, attempt, commits, failures,
          misuse>>

\* HttpEntitiesStateApplier
applier_vars ==
    <<op, create_missing_related_entities, delete_dependent_entities, declared,
      before, after, pc, step, entities, ordered_created_entities,
      modified_entities, entities_to_delete, entities_to_protect,
      related_entities_refs, entities_refs, ordered_deleted_entities_refs, calls,
      run, first_written, first_protect>>

\* KafkaConsumer
consumer_vars ==
    <<running, consumer, start_pc, signals, msg, attempt, commits, failures, misuse>>

\* what an earlier invocation left behind
earlier_run == <<run, first_written, first_protect>>

\* Longest before / after / candidate / protect list that is enumerated.
MaxLen == 2

\* Most termination signals delivered to the process.
MaxSignals == 2

\* The identity keys (identifier, blueprint) the inputs are drawn from.  Two of
\* them share an identifier and two share a blueprint.
KeyOrder ==
    << [identifier |-> "A", blueprint |-> "service"],
       [identifier |-> "B", blueprint |-> "service"],
       [identifier |-> "A", blueprint |-> "team"] >>

Keys == { KeyOrder[i] : i \in DOMAIN KeyOrder }

---------------------------------------------------------------------------
\* Sequence helpers.

Range(s) == { s[i] : i \in DOMAIN s }

\* Python's reversed().
Reverse(s) == [ i \in 1..Len(s) |-> s[Len(s) + 1 - i] ]

\* The elements of s at the indices in I, in the order of s.
SelectByIndex(s, I) ==
    LET F[i \in 0..Len(s)] ==
            IF i = 0 THEN << >>
            ELSE IF i \in I THEN Append(F[i - 1], s[i]) ELSE F[i - 1]
    IN  F[Len(s)]

SubSeqs(s) == { SelectByIndex(s, I) : I \in SUBSET (1..Len(s)) }

Perms(s) ==
    { [ i \in 1..Len(s) |-> s[p[i]] ] :
        p \in { q \in [1..Len(s) -> 1..Len(s)] :
                  \A i, j \in 1..Len(s) : i # j => q[i] # q[j] } }

KeySeqs ==
    UNION { { s \in [1..n -> Keys] : \A i, j \in 1..n : i # j => s[i] # s[j] } :
            n \in 0..MaxLen }

---------------------------------------------------------------------------
\* Entities, references and identity.

Entity(k, rel, search) ==
    [ identifier |-> k.identifier, blueprint |-> k.blueprint,
      relations |-> rel, is_using_search_identifier |-> search ]

\* EntityRef.from_entity
from_entity(e) == [ identifier |-> e.identifier, blueprint |-> e.blueprint ]

Refs(s) == [ i \in 1..Len(s) |-> from_entity(s[i]) ]

is_same_entity(a, b) == a.identifier = b.identifier /\ a.blueprint = b.blueprint

InList(x, s) == \E i \in 1..Len(s) : is_same_entity(s[i], x)

---------------------------------------------------------------------------
\* 4.1 Identity & Diff Engine.

get_port_diff(b, a) ==
    [ created  |-> SelectSeq(a, LAMBDA x : ~InList(x, b)),
      modified |-> SelectSeq(a, LAMBDA x : InList(x, b)),
      deleted  |-> SelectSeq(b, LAMBDA x : ~InList(x, a)) ]

get_port_ref_diff(b, a) == get_port_diff(b, a)

---------------------------------------------------------------------------
\* 4.2 Dependency Orderer.  x depends on y when x's relations reference y's
\* identity key.

EntityDependsOn(x, y) == from_entity(y) \in x.relations

RefDependsOn(x, y) == y \in declared[x]

\* The edges among the members of s, as pairs << dependent, dependency >>.
EntityEdges(s) ==
    { e \in Range(s) \X Range(s) : EntityDependsOn(e[1], e[2]) }

RefEdges(s) ==
    { e \in Range(s) \X Range(s) : RefDependsOn(e[1], e[2]) }

\* forCreation: no entity precedes an entity it depends on.
CreationOrders(s, edges) ==
    { t \in Perms(s) : \A i, j \in 1..Len(t) : i < j => << t[i], t[j] >> \notin edges }

\* forDeletion, the inverse discipline: dependents are removed before their
\* dependencies, so no entity precedes an entity that depends on it.
DeletionOrders(s, edges) ==
    { t \in Perms(s) : \A i, j \in 1..Len(t) : i < j => << t[j], t[i] >> \notin edges }

\* A cyclic graph has no such order: the input order is the fallback.
OrFallback(orders, s) == IF orders = {} THEN {s} ELSE orders

order_by_entities_dependencies(s) ==
    OrFallback(CreationOrders(s, EntityEdges(s)), s)

order_by_entities_ref_dependencies(s) ==
    OrFallback(DeletionOrders(s, RefEdges(s)), s)

---------------------------------------------------------------------------
\* Remote Store Client (section 6): one record per call.  result holds what the
\* call wrote or removed: the written entities of an upsert, the removed refs
\* of a delete, nothing for a call that failed.  should_raise is the keyword
\* the call was given (the lookup takes none).

UpsertCalls == { "batch_upsert_entities", "upsert_entity" }

DeleteCalls == { "batch_delete_entities", "delete_entity" }

LookupCalls == { "get_related_entities_refs" }

\* a client told to raise its failures
ShouldRaise_True == TRUE

\* should_raise=False, lines 111, 131, 146 and 158
ShouldRaise == FALSE

Call(name, args, result) ==
    [ call |-> name, args |-> args, result |-> result,
      should_raise |-> (name \notin LookupCalls /\ ShouldRaise) ]

\* a failed call raises out of the method when it was told to
Raises(ok) == ShouldRaise /\ ~ok

---------------------------------------------------------------------------
\* applier.py, the decisions of each method.

\* _safe_delete without its early return
SafeDeleteReturnsEarly_Never(to_delete) == FALSE

\* _safe_delete, lines 34-35
SafeDeleteReturnsEarly(to_delete) == to_delete = << >>

\* _safe_delete, lines 44-61: is entity_to_delete appended to
\* allowed_entities_to_delete?
IsAllowedToDelete(entity_to_delete, to_protect, related, create_missing) ==
    LET is_part_of_related ==
            \E entity \in related : is_same_entity(entity, entity_to_delete)
        is_part_of_created ==
            \E i \in 1..Len(to_protect) : is_same_entity(to_protect[i], entity_to_delete)
    IN  IF is_part_of_related
        THEN ~create_missing
        ELSE ~is_part_of_created

\* _safe_delete putting each allowed candidate in front of the earlier ones
allowed_entities_to_delete_Prepended(to_delete, to_protect, related, create_missing) ==
    Reverse(SelectSeq(to_delete,
              LAMBDA e : IsAllowedToDelete(e, to_protect, related, create_missing)))

\* _safe_delete handing every candidate on
allowed_entities_to_delete_Unfiltered(to_delete, to_protect, related, create_missing) ==
    to_delete

\* _safe_delete, lines 41-61
allowed_entities_to_delete(to_delete, to_protect, related, create_missing) ==
    SelectSeq(to_delete,
              LAMBDA e : IsAllowedToDelete(e, to_protect, related, create_missing))

\* apply_diff upserting only what is new
kept_entities_OnlyCreated(diff) == diff.created

\* apply_diff, line 71
kept_entities(diff) == diff.created \o diff.modified

\* apply_diff protecting everything it tried to write
ProtectedEntities_AllKept(kept, upserted) == kept

\* apply_diff, lines 76-79: the entities whose refs are protected
ProtectedEntities(kept, upserted) == upserted

\* apply_diff taking every entity of before as a deletion candidate
deleted_refs_AllBefore(diff, b) == Refs(b)

\* apply_diff, line 80
deleted_refs(diff, b) == Refs(diff.deleted)

\* apply_diff deleting before it upserts
ApplyDiffSteps_DeleteFirst == << "_safe_delete", "upsert" >>

\* apply_diff, lines 76 and 81: the awaited calls, in order
ApplyDiffSteps == << "upsert", "_safe_delete" >>

\* upsert, line 106
UpsertInBatch == create_missing_related_entities

\* upsert, lines 114-120
entities_with_search_identifier(s) ==
    SelectSeq(s, LAMBDA e : e.is_using_search_identifier)

entities_without_search_identifier(s) ==
    SelectSeq(s, LAMBDA e : ~e.is_using_search_identifier)

\* upsert forgetting the entities with a search identifier
OrderedCreated_OnlyOrdered(with_search, ordered) == Reverse(ordered)

\* upsert, lines 122-125, given the orderer's answer
OrderedCreated(with_search, ordered) == Reverse(with_search \o ordered)

\* upsert appending whatever upsert_entity was given, written or not
Accumulate_Always(modified, upsertedEntity, ok) == Append(modified, upsertedEntity)

\* upsert, lines 133-134
Accumulate(modified, upsertedEntity, ok) ==
    IF ok THEN Append(modified, upsertedEntity) ELSE modified

\* delete, line 141
DeleteInBatch == delete_dependent_entities

\* delete walking the orderer's answer backwards
OrderedDeleted_Reversed(ordered) == Reverse(ordered)

\* delete, lines 149-153, given the orderer's answer
OrderedDeleted(ordered) == ordered

\* delete giving up at the first delete_entity call that fails
RestAfterDelete_StopOnFailure(rest, ok) == IF ok THEN Tail(rest) ELSE << >>

\* delete, lines 153-159: what the loop still visits after one call
RestAfterDelete(rest, ok) == Tail(rest)

---------------------------------------------------------------------------
\* The invocations that are explored.  Relations are read only by the two
\* orderers, so they are enumerated inside the collection that is ordered
\* (the upserted entities, the deletion candidates); the search-identifier flag
\* is read only by the sequential upsert.

RelationSets(k, K) == { {} } \cup { {t} : t \in K \ {k} }

Graphs(K1, K2) ==
    { g \in [Keys -> UNION { RelationSets(k, Keys) : k \in Keys }] :
        \A k \in Keys :
            \/ g[k] = {}
            \/ k \in K1 /\ g[k] \in RelationSets(k, K1)
            \/ k \in K2 /\ g[k] \in RelationSets(k, K2) }

\* The order of the protect list is never read, and neither is the order of
\* the part of before that after retains: one order of each is explored.
InputShape(o, b, a) ==
    IF o = "_safe_delete"
    THEN a \in SubSeqs(KeyOrder)
    ELSE SelectSeq(b, LAMBDA x : InList(x, a)) = SelectSeq(a, LAMBDA x : InList(x, b))

\* KafkaConsumer.__init__, lines 29-53
Constructed ==
    /\ running = FALSE
    /\ consumer = "open"
    /\ start_pc = "constructed"
    /\ signals = 0
    /\ msg = "none"
    /\ attempt = "no"
    /\ commits = 0
    /\ failures = {}
    /\ misuse = {}

Idle ==
    /\ step = 0
    /\ entities = << >>
    /\ ordered_created_entities = << >>
    /\ modified_entities = << >>
    /\ related_entities_refs = {}
    /\ entities_refs = << >>
    /\ ordered_deleted_entities_refs = << >>
    /\ calls = << >>

Init ==
    /\ op \in { "apply_diff", "delete_diff", "_safe_delete" }
    /\ pc = op
    /\ create_missing_related_entities \in BOOLEAN
    /\ delete_dependent_entities \in BOOLEAN
    /\ Idle
    /\ run = 1
    /\ first_written = {}
    /\ first_protect = {}
    /\ Constructed
    /\ \E b \in KeySeqs, a \in KeySeqs :
         /\ InputShape(op, b, a)
         /\ LET candidates == IF op = "_safe_delete"
                              THEN Range(b) ELSE Range(b) \ Range(a)
                upserted   == IF op = "apply_diff" /\ ~create_missing_related_entities
                              THEN Range(a) ELSE {}
                deleted    == IF delete_dependent_entities THEN {} ELSE candidates
            IN  \E g \in Graphs(upserted, deleted), S \in SUBSET upserted :
                  /\ declared = g
                  /\ before = IF op = "apply_diff"
                              THEN [ i \in 1..Len(b) |-> Entity(b[i], g[b[i]], FALSE) ]
                              ELSE IF op = "delete_diff" THEN b ELSE << >>
                  /\ after  = IF op = "apply_diff"
                              THEN [ i \in 1..Len(a) |-> Entity(a[i], g[a[i]], a[i] \in S) ]
                              ELSE IF op = "delete_diff" THEN a ELSE << >>
                  /\ entities_to_delete  = IF op = "_safe_delete" THEN b ELSE << >>
                  /\ entities_to_protect = IF op = "_safe_delete" THEN a ELSE << >>

---------------------------------------------------------------------------
\* The awaited call returns: apply_diff goes on to its next step, any other
\* entry point is finished.

Resume(upserted) ==
    IF op = "apply_diff" /\ step < Len(ApplyDiffSteps)
    THEN /\ step' = step + 1
         /\ pc' = ApplyDiffSteps[step + 1]
         /\ entities_to_protect' = Refs(ProtectedEntities(entities, upserted))
    ELSE /\ step' = step
         /\ pc' = "done"
         /\ UNCHANGED entities_to_protect

\* a remote call that ends the method it was made in: the failure propagates
\* out of the invocation when the call raises, else the caller resumes
Finish(ok, upserted) ==
    IF Raises(ok)
    THEN /\ pc' = "raised"
         /\ UNCHANGED <<step, entities_to_protect>>
    ELSE Resume(upserted)

\* apply_diff, lines 70-76
ApplyDiff ==
    /\ pc = "apply_diff"
    /\ LET diff == get_port_diff(before, after)
       IN  /\ entities' = kept_entities(diff)
           /\ entities_to_delete' = deleted_refs(diff, before)
           /\ entities_to_protect' =
                  Refs(ProtectedEntities(kept_entities(diff), modified_entities))
    /\ step' = 1
    /\ pc' = ApplyDiffSteps[1]
    /\ UNCHANGED <<earlier_run, consumer_vars>>
    /\ UNCHANGED <<op, create_missing_related_entities, delete_dependent_entities,
                   declared, before, after, ordered_created_entities,
                   modified_entities, related_entities_refs, entities_refs,
                   ordered_deleted_entities_refs, calls>>

\* delete_diff, lines 88-99
DeleteDiff ==
    /\ pc = "delete_diff"
    /\ LET diff == get_port_ref_diff(before, after)
       IN  IF diff.deleted = << >>
           THEN /\ pc' = "done"
                /\ UNCHANGED <<entities_to_delete, entities_to_protect>>
           ELSE /\ pc' = "_safe_delete"
                /\ entities_to_delete' = diff.deleted
                /\ entities_to_protect' = kept_entities(diff)
    /\ UNCHANGED <<earlier_run, consumer_vars>>
    /\ UNCHANGED <<op, create_missing_related_entities, delete_dependent_entities,
                   declared, before, after, step, entities, ordered_created_entities,
                   modified_entities, related_entities_refs, entities_refs,
                   ordered_deleted_entities_refs, calls>>

\* upsert, lines 106-112 and 135: one batch_upsert_entities call, which returns
\* the entities it wrote
UpsertBatch ==
    /\ pc = "upsert"
    /\ UpsertInBatch
    /\ \E written \in SubSeqs(entities) :
         /\ modified_entities' = written
         /\ calls' = Append(calls, Call("batch_upsert_entities", entities, written))
         /\ Finish(written = entities, written)
    /\ UNCHANGED <<earlier_run, consumer_vars>>
    /\ UNCHANGED <<op, create_missing_related_entities, delete_dependent_entities,
                   declared, before, after, entities, ordered_created_entities,
                   entities_to_delete, related_entities_refs, entities_refs,
                   ordered_deleted_entities_refs>>

\* upsert keeping the result list of an earlier call
NewModifiedEntities_Kept(previous) == previous

\* upsert, line 105
NewModifiedEntities(previous) == << >>

\* upsert, lines 105 and 114-125
UpsertOrder ==
    /\ pc = "upsert"
    /\ ~UpsertInBatch
    /\ \E ordered \in order_by_entities_dependencies(
                          entities_without_search_identifier(entities)) :
         ordered_created_entities' =
             OrderedCreated(entities_with_search_identifier(entities), ordered)
    /\ modified_entities' = NewModifiedEntities(modified_entities)
    /\ pc' = "upsert_loop"
    /\ UNCHANGED <<earlier_run, consumer_vars>>
    /\ UNCHANGED <<op, create_missing_related_entities, delete_dependent_entities,
                   declared, before, after, step, entities,
                   entities_to_delete, entities_to_protect, related_entities_refs,
                   entities_refs, ordered_deleted_entities_refs, calls>>

\* upsert, lines 126-134: one upsert_entity call, which returns the entity or
\* nothing
UpsertEntity ==
    /\ pc = "upsert_loop"
    /\ ordered_created_entities # << >>
    /\ LET entity == Head(ordered_created_entities)
       IN  \E ok \in BOOLEAN :
             /\ modified_entities' = Accumulate(modified_entities, entity, ok)
             /\ calls' = Append(calls, Call("upsert_entity", << entity >>,
                                            IF ok THEN << entity >> ELSE << >>))
             /\ pc' = IF Raises(ok) THEN "raised" ELSE pc
    /\ ordered_created_entities' = Tail(ordered_created_entities)
    /\ UNCHANGED <<earlier_run, consumer_vars>>
    /\ UNCHANGED <<op, create_missing_related_entities, delete_dependent_entities,
                   declared, before, after, step, entities, entities_to_delete,
                   entities_to_protect, related_entities_refs, entities_refs,
                   ordered_deleted_entities_refs>>

\* upsert, line 135 after the loop
UpsertReturn ==
    /\ pc = "upsert_loop"
    /\ ordered_created_entities = << >>
    /\ Resume(modified_entities)
    /\ UNCHANGED <<earlier_run, consumer_vars>>
    /\ UNCHANGED <<op, create_missing_related_entities, delete_dependent_entities,
                   declared, before, after, entities, ordered_created_entities,
                   modified_entities, entities_to_delete, related_entities_refs,
                   entities_refs, ordered_deleted_entities_refs, calls>>

\* _safe_delete, lines 34-35
SafeDeleteNothing ==
    /\ pc = "_safe_delete"
    /\ SafeDeleteReturnsEarly(entities_to_delete)
    /\ Resume(modified_entities)
    /\ UNCHANGED <<earlier_run, consumer_vars>>
    /\ UNCHANGED <<op, create_missing_related_entities, delete_dependent_entities,
                   declared, before, after, entities, ordered_created_entities,
                   modified_entities, entities_to_delete, related_entities_refs,
                   entities_refs, ordered_deleted_entities_refs, calls>>

\* _safe_delete, lines 37-63: the related lookup, whose answer is whatever the
\* remote store holds (only refs of candidates can match), then the filter
SafeDelete ==
    /\ pc = "_safe_delete"
    /\ ~SafeDeleteReturnsEarly(entities_to_delete)
    /\ \E related \in SUBSET Range(entities_to_delete) :
         /\ related_entities_refs' = related
         /\ entities_refs' =
                allowed_entities_to_delete(entities_to_delete, entities_to_protect,
                                           related, create_missing_related_entities)
    /\ calls' = Append(calls, Call("get_related_entities_refs",
                                   entities_to_protect, << >>))
    /\ pc' = "delete"
    /\ UNCHANGED <<earlier_run, consumer_vars>>
    /\ UNCHANGED <<op, create_missing_related_entities, delete_dependent_entities,
                   declared, before, after, step, entities, ordered_created_entities,
                   modified_entities, entities_to_delete, entities_to_protect,
                   ordered_deleted_entities_refs>>

\* delete, lines 141-147: one batch_delete_entities call, which removes some
\* or all of the refs it was given
DeleteBatch ==
    /\ pc = "delete"
    /\ DeleteInBatch
    /\ \E removed \in SubSeqs(entities_refs) :
         /\ calls' = Append(calls, Call("batch_delete_entities", entities_refs,
                                        removed))
         /\ Finish(removed = entities_refs, modified_entities)
    /\ UNCHANGED <<earlier_run, consumer_vars>>
    /\ UNCHANGED <<op, create_missing_related_entities, delete_dependent_entities,
                   declared, before, after, entities, ordered_created_entities,
                   modified_entities, entities_to_delete, related_entities_refs,
                   entities_refs, ordered_deleted_entities_refs>>

\* delete, lines 149-151
DeleteOrder ==
    /\ pc = "delete"
    /\ ~DeleteInBatch
    /\ \E ordered \in order_by_entities_ref_dependencies(entities_refs) :
         ordered_deleted_entities_refs' = OrderedDeleted(ordered)
    /\ pc' = "delete_loop"
    /\ UNCHANGED <<earlier_run, consumer_vars>>
    /\ UNCHANGED <<op, create_missing_related_entities, delete_dependent_entities,
                   declared, before, after, step, entities, ordered_created_entities,
                   modified_entities, entities_to_delete, entities_to_protect,
                   related_entities_refs, entities_refs, calls>>

\* delete, lines 153-159: one delete_entity call, which succeeds or fails
\* without raising
DeleteEntity ==
    /\ pc = "delete_loop"
    /\ ordered_deleted_entities_refs # << >>
    /\ LET entity_ref == Head(ordered_deleted_entities_refs)
       IN  \E ok \in BOOLEAN :
             /\ calls' = Append(calls, Call("delete_entity", << entity_ref >>,
                                            IF ok THEN << entity_ref >> ELSE << >>))
             /\ ordered_deleted_entities_refs' =
                    RestAfterDelete(ordered_deleted_entities_refs, ok)
             /\ pc' = IF Raises(ok) THEN "raised" ELSE pc
    /\ UNCHANGED <<earlier_run, consumer_vars>>
    /\ UNCHANGED <<op, create_missing_related_entities, delete_dependent_entities,
                   declared, before, after, step, entities,
                   ordered_created_entities, modified_entities, entities_to_delete,
                   entities_to_protect, related_entities_refs, entities_refs>>

\* delete returns after the loop
DeleteReturn ==
    /\ pc = "delete_loop"
    /\ ordered_deleted_entities_refs = << >>
    /\ Resume(modified_entities)
    /\ UNCHANGED <<earlier_run, consumer_vars>>
    /\ UNCHANGED <<op, create_missing_related_entities, delete_dependent_entities,
                   declared, before, after, entities, ordered_created_entities,
                   modified_entities, entities_to_delete, related_entities_refs,
                   entities_refs, ordered_deleted_entities_refs, calls>>

Next ==
    \/ ApplyDiff
    \/ DeleteDiff
    \/ UpsertBatch
    \/ UpsertOrder
    \/ UpsertEntity
    \/ UpsertReturn
    \/ SafeDeleteNothing
    \/ SafeDelete
    \/ DeleteBatch
    \/ DeleteOrder
    \/ DeleteEntity
    \/ DeleteReturn

Spec == Init /\ [][Next]_vars

---------------------------------------------------------------------------
\* KafkaConsumer (consumers/kafka_consumer.py).  start runs on the main thread;
\* exit_gracefully is the handler of SIGINT and SIGTERM and runs on the same
\* thread between any two steps of start.  A call on a consumer that was
\* closed is recorded in misuse; the client library answers it by raising or
\* by doing nothing.  The close of exit_gracefully is taken to return to the
\* interrupted code.

\* start with the handler of the poll loop left out: the error leaves the loop
OnMessageError_Propagates == "close_after_error"

\* start, lines 100-101: the error is logged and the loop goes on
OnMessageError == "while"

\* start committing only after a _handle_message that returned
CommitAfter_OnlyWhenHandled(outcome) == outcome # "decode_failed"

\* start, lines 98-99: finally
CommitAfter(outcome) == TRUE

\* no other application started, no diff being applied
NoInvocation ==
    /\ op = "none"
    /\ pc = "done"
    /\ create_missing_related_entities = FALSE
    /\ delete_dependent_entities = FALSE
    /\ declared = [ k \in Keys |-> {} ]
    /\ before = << >>
    /\ after = << >>
    /\ entities_to_delete = << >>
    /\ entities_to_protect = << >>
    /\ Idle
    /\ run = 1
    /\ first_written = {}
    /\ first_protect = {}

InitKafka == Constructed /\ NoInvocation

\* start is called, line 67
Start ==
    /\ start_pc = "constructed"
    /\ start_pc' = "subscribe"
    /\ UNCHANGED <<running, consumer, signals, msg, attempt, commits, failures,
                   misuse>>
    /\ UNCHANGED applier_vars

\* start, lines 71-77
Subscribe ==
    /\ start_pc = "subscribe"
    /\ IF consumer = "closed"
       THEN /\ misuse' = misuse \cup {"subscribe"}
            /\ \E raises \in BOOLEAN :
                 start_pc' = IF raises THEN "close_after_error" ELSE "set_running"
       ELSE /\ start_pc' = "set_running"
            /\ UNCHANGED misuse
    /\ UNCHANGED <<running, consumer, signals, msg, attempt, commits, failures>>
    /\ UNCHANGED applier_vars

\* start, line 78
SetRunning ==
    /\ start_pc = "set_running"
    /\ running' = TRUE
    /\ start_pc' = "while"
    /\ UNCHANGED <<consumer, signals, msg, attempt, commits, failures, misuse>>
    /\ UNCHANGED applier_vars

\* start, line 79
While ==
    /\ start_pc = "while"
    /\ start_pc' = IF running THEN "poll" ELSE "close"
    /\ UNCHANGED <<running, consumer, signals, msg, attempt, commits, failures,
                   misuse>>
    /\ UNCHANGED applier_vars

\* start, lines 81-85 and 100-101: poll answers nothing, a message that
\* carries a broker error, or a message
Poll ==
    /\ start_pc = "poll"
    /\ attempt' = "no"
    /\ commits' = 0
    /\ IF consumer = "closed"
       THEN /\ misuse' = misuse \cup {"poll"}
            /\ msg' = "none"
            /\ \E raises \in BOOLEAN :
                 start_pc' = IF raises THEN OnMessageError ELSE "while"
            /\ UNCHANGED failures
       ELSE /\ \E m \in {"none", "error", "ok"} :
                 /\ msg' = m
                 /\ start_pc' = CASE m = "none"  -> "while"
                                  [] m = "error" -> OnMessageError
                                  [] m = "ok"    -> "handle"
                 /\ failures' = IF m = "error"
                                THEN failures \cup {"broker_error"} ELSE failures
            /\ UNCHANGED misuse
    /\ UNCHANGED <<running, consumer, signals>>
    /\ UNCHANGED applier_vars

\* start, lines 87-98, and _handle_message, lines 55-65: decoding raises, or
\* msg_process raises inside try_wrapper, or the message is processed
Handle ==
    /\ start_pc = "handle"
    /\ \E outcome \in {"processed", "process_failed", "decode_failed"} :
         /\ attempt' = outcome
         /\ failures' = IF outcome = "processed"
                        THEN failures ELSE failures \cup {outcome}
         /\ start_pc' = IF CommitAfter(outcome) THEN "commit" ELSE "while"
    /\ UNCHANGED <<running, consumer, signals, msg, commits, misuse>>
    /\ UNCHANGED applier_vars

\* start, lines 99-101: the commit succeeds or raises
Commit ==
    /\ start_pc = "commit"
    /\ commits' = commits + 1
    /\ IF consumer = "closed"
       THEN /\ misuse' = misuse \cup {"commit"}
            /\ \E raises \in BOOLEAN :
                 start_pc' = IF raises THEN OnMessageError ELSE "while"
            /\ UNCHANGED failures
       ELSE /\ \E ok \in BOOLEAN :
                 /\ start_pc' = IF ok THEN "while" ELSE OnMessageError
                 /\ failures' = IF ok THEN failures ELSE failures \cup {"commit"}
            /\ UNCHANGED misuse
    /\ UNCHANGED <<running, consumer, signals, msg, attempt>>
    /\ UNCHANGED applier_vars

\* start, lines 102-103: finally, after the loop ended or an error left the try
Close ==
    /\ start_pc \in {"close", "close_after_error"}
    /\ consumer' = "closed"
    /\ IF consumer = "closed"
       THEN /\ misuse' = misuse \cup {"close"}
            /\ \E raises \in BOOLEAN :
                 start_pc' = IF raises \/ start_pc = "close_after_error"
                             THEN "raised" ELSE "returned"
       ELSE /\ start_pc' = IF start_pc = "close_after_error"
                           THEN "raised" ELSE "returned"
            /\ UNCHANGED misuse
    /\ UNCHANGED <<running, signals, msg, attempt, commits, failures>>
    /\ UNCHANGED applier_vars

\* exit_gracefully, lines 105-108, run by a signal registered at lines 32-33
ExitGracefully ==
    /\ signals < MaxSignals
    /\ signals' = signals + 1
    /\ running' = FALSE
    /\ consumer' = "closed"
    /\ misuse' = IF consumer = "closed" THEN misuse \cup {"close"} ELSE misuse
    /\ UNCHANGED <<start_pc, msg, attempt, commits, failures>>
    /\ UNCHANGED applier_vars

\* the steps of the main thread
StartStep ==
    \/ Start
    \/ Subscribe
    \/ SetRunning
    \/ While
    \/ Poll
    \/ Handle
    \/ Commit
    \/ Close

NextKafka ==
    \/ StartStep
    \/ ExitGracefully

\* the main thread keeps running; a signal may never come
SpecKafka == InitKafka /\ [][NextKafka]_vars /\ WF_vars(StartStep)

---------------------------------------------------------------------------
\* Relations and search identifiers are read by the orderers and the partition
\* of upsert alone, to choose the order of the calls.  With none declared every
\* order of the calls is a valid one, so every order is explored.

Unordered ==
    /\ declared = [ k \in Keys |-> {} ]
    /\ op = "apply_diff" =>
          \A i \in 1..Len(after) : ~after[i].is_using_search_identifier

InitUnordered == Init /\ Unordered

SpecUnordered == InitUnordered /\ [][Next]_vars

\* apply_diff invoked a second time with the arguments of the first invocation,
\* for a diff whose deleted bucket is empty.  calls restarts with the
\* invocation; the locals of the finished invocation are gone.
\* delete_dependent_entities is read by delete alone, which such a diff never
\* reaches: one value of it is explored.

DeletedBucketEmpty == \A i \in 1..Len(before) : InList(before[i], after)

InitTwice ==
    /\ InitUnordered
    /\ op = "apply_diff"
    /\ DeletedBucketEmpty
    /\ ~delete_dependent_entities

ApplyDiffAgain ==
    /\ pc = "done"
    /\ run = 1
    /\ run' = 2
    /\ first_written' = Range(modified_entities)
    /\ first_protect' = Range(entities_to_protect)
    /\ pc' = op
    /\ step' = 0
    /\ calls' = << >>
    /\ entities' = << >>
    /\ ordered_created_entities' = << >>
    /\ entities_to_delete' = << >>
    /\ entities_to_protect' = << >>
    /\ UNCHANGED consumer_vars
    /\ UNCHANGED <<op, create_missing_related_entities, delete_dependent_entities,
                   declared, before, after, modified_entities,
                   related_entities_refs, entities_refs,
                   ordered_deleted_entities_refs>>

NextTwice ==
    \/ ApplyDiff
    \/ UpsertBatch
    \/ UpsertOrder
    \/ UpsertEntity
    \/ UpsertReturn
    \/ SafeDeleteNothing
    \/ ApplyDiffAgain

SpecTwice == InitTwice /\ [][NextTwice]_vars

\* the event loop resumes a coroutine whenever the call it awaits has answered
FairSpec == InitUnordered /\ [][Next]_vars /\ WF_vars(Next)

---------------------------------------------------------------------------
\* Reading the call history.

CallsOf(names) == SelectSeq(calls, LAMBDA c : c.call \in names)

\* The single argument of each upsert_entity / delete_entity call, in order.
ArgsOf(name) ==
    LET cs == CallsOf({name}) IN [ i \in 1..Len(cs) |-> cs[i].args[1] ]

\* Everything the upsert calls issued so far have written, in call order.
Written ==
    LET F[i \in 0..Len(calls)] ==
            IF i = 0 THEN << >>
            ELSE IF calls[i].call \in UpsertCalls
                 THEN F[i - 1] \o calls[i].result ELSE F[i - 1]
    IN  F[Len(calls)]

NoDuplicates(s) == \A i, j \in 1..Len(s) : i # j => s[i] # s[j]

SameElementsOnce(s, t) ==
    /\ Len(s) = Len(t)
    /\ NoDuplicates(s)
    /\ Range(s) = Range(t)

\* _safe_delete went past its early return: the lookup was issued, the filter
\* ran and delete was called with entities_refs.
GuardActed == CallsOf(LookupCalls) # << >>

\* The graph of Dep on S has no cycle: every non-empty part of S has a member
\* that depends on no member of the part.
Acyclic(S, edges) ==
    \A C \in (SUBSET S) \ { {} } : \E x \in C : \A y \in C : << x, y >> \notin edges

DeleteReturned == GuardActed /\ pc = "done"

DiffEntry == op \in { "apply_diff", "delete_diff" }

---------------------------------------------------------------------------
\* C1: Deletion Guard decision.  Once _safe_delete has filtered, a candidate E
\* is handed to delete if and only if E is identity-equal to no member of the
\* protect set and (E is identity-equal to no related ref or
\* create_missing_related_entities is disabled).
C1_DeletionGuardDecision ==
    GuardActed =>
        \A i \in 1..Len(entities_to_delete) :
            LET E == entities_to_delete[i]
                in_keep == InList(E, entities_to_protect)
                related == \E r \in related_entities_refs : is_same_entity(r, E)
            IN  InList(E, entities_refs)
                    <=> (~in_keep /\ (~related \/ ~create_missing_related_entities))

\* C2: End-to-end protection of the kept set.  In apply_diff and delete_diff
\* no ref handed to delete_entity or batch_delete_entities is identity-equal
\* to a member of the protect set: an entity some upsert call wrote
\* (apply_diff), a created or modified ref (delete_diff).
C2_KeptSetNeverDeleted ==
    DiffEntry =>
        \A i \in 1..Len(calls) :
            calls[i].call \in DeleteCalls =>
                \A j \in 1..Len(calls[i].args) :
                    /\ ~InList(calls[i].args[j], Written)
                    /\ op = "delete_diff" => ~InList(calls[i].args[j], after)

C2_Witness ==
    /\ op = "apply_diff"
    /\ pc = "done"
    /\ Written # << >>
    /\ \E i \in 1..Len(calls) :
         calls[i].call \in DeleteCalls /\ calls[i].args # << >>

\* C3: Phase ordering in apply_diff.  Every upsert call comes before the
\* related lookup and the lookup before every delete call; when the lookup is
\* issued the upsert loop has no entity left to write.
C3_PhaseOrdering ==
    op = "apply_diff" =>
        /\ \A i, j \in 1..Len(calls) :
             i < j =>
                /\ ~(calls[i].call \in LookupCalls \cup DeleteCalls
                        /\ calls[j].call \in UpsertCalls)
                /\ ~(calls[i].call \in DeleteCalls /\ calls[j].call \in LookupCalls)
        /\ CallsOf(LookupCalls \cup DeleteCalls) # << >> =>
             /\ ordered_created_entities = << >>
             /\ create_missing_related_entities
                    => Len(CallsOf({"batch_upsert_entities"})) = 1
             /\ ~create_missing_related_entities
                    => Len(CallsOf({"upsert_entity"})) = Len(entities)
        /\ CallsOf(DeleteCalls) # << >> => GuardActed

C3_Witness ==
    /\ op = "apply_diff"
    /\ pc = "done"
    /\ Len(CallsOf({"upsert_entity"})) > 1
    /\ GuardActed
    /\ CallsOf({"delete_entity"}) # << >>

\* C4: The protect set excludes failed upserts.  What apply_diff hands to
\* _safe_delete, and _safe_delete to the related lookup, is exactly the refs
\* of the entities the upsert calls returned as written; an entity whose
\* upsert failed is not in it.
C4_ProtectSetIsWritten ==
    (op = "apply_diff" /\ step = 2) =>
        /\ entities_to_protect = Refs(Written)
        /\ \A i \in 1..Len(calls) :
             /\ calls[i].call \in LookupCalls => calls[i].args = Refs(Written)
             /\ calls[i].call \in UpsertCalls =>
                  \A j \in 1..Len(calls[i].args) :
                      InList(calls[i].args[j], entities_to_protect)
                          <=> InList(calls[i].args[j], calls[i].result)

C4_Witness ==
    /\ op = "apply_diff"
    /\ ~create_missing_related_entities
    /\ GuardActed
    /\ \E i, j \in 1..Len(calls) :
         /\ calls[i].call = "upsert_entity" /\ calls[i].result = << >>
         /\ calls[j].call = "upsert_entity" /\ calls[j].result # << >>

\* C5: Creation order in sequential mode.  With
\* create_missing_related_entities disabled and an acyclic relation graph over
\* the input entities, no entity without a search identifier is written
\* before an entity of the same call it depends on.
C5_CreationOrder ==
    (~create_missing_related_entities /\ Acyclic(Range(entities), EntityEdges(entities))) =>
        LET written == ArgsOf("upsert_entity")
        IN  \A i, j \in 1..Len(written) :
                i < j =>
                   ~(/\ ~written[i].is_using_search_identifier
                     /\ EntityDependsOn(written[i], written[j]))

\* C6: Placement of search-identifier entities.  With
\* create_missing_related_entities disabled no entity without a search
\* identifier is written before an entity with one.
C6_SearchIdentifierFirst ==
    ~create_missing_related_entities =>
        LET written == ArgsOf("upsert_entity")
        IN  \A i, j \in 1..Len(written) :
                i < j =>
                   ~(/\ ~written[i].is_using_search_identifier
                     /\ written[j].is_using_search_identifier)

\* C7 as stated: with delete_dependent_entities disabled, for any relations
\* among the deleted entities, no entity is deleted before an entity that
\* depends on it.
C7_DeletionOrderAnyGraph ==
    ~delete_dependent_entities =>
        LET removed == ArgsOf("delete_entity")
        IN  \A i, j \in 1..Len(removed) :
                i < j => ~RefDependsOn(removed[j], removed[i])

\* C7: Deletion order in sequential mode.  With delete_dependent_entities
\* disabled and no cycle in the relations among the refs handed to delete,
\* no entity is deleted before an entity that depends on it: dependents are
\* deleted before their dependencies (B before A when B depends on A).
C7_DeletionOrder ==
    (~delete_dependent_entities /\ Acyclic(Range(entities_refs), RefEdges(entities_refs))) =>
        LET removed == ArgsOf("delete_entity")
        IN  \A i, j \in 1..Len(removed) :
                i < j => ~RefDependsOn(removed[j], removed[i])

C7_Witness ==
    /\ op = "apply_diff"
    /\ after = << >>
    /\ ~delete_dependent_entities
    /\ pc = "done"
    /\ LET removed == ArgsOf("delete_entity")
       IN  /\ Len(removed) > 1
           /\ RefDependsOn(removed[1], removed[2])
           /\ \E i, j \in 1..Len(before) :
                  /\ i < j
                  /\ from_entity(before[i]) = removed[2]
                  /\ from_entity(before[j]) = removed[1]

\* C8: No deletions means no delete-path activity.  When the deleted bucket of
\* apply_diff or delete_diff is empty, no related lookup and no delete call is
\* issued; delete_diff then issues no remote call at all; apply_diff with
\* before = [], after = [A] and create_missing_related_entities disabled
\* issues exactly one upsert_entity call, for A, and nothing else.
C8_NoDeletionsNoDeletePath ==
    (DiffEntry /\ DeletedBucketEmpty) =>
        /\ CallsOf(LookupCalls \cup DeleteCalls) = << >>
        /\ op = "delete_diff" => calls = << >>
        /\ (/\ op = "apply_diff"
            /\ before = << >>
            /\ Len(after) = 1
            /\ ~create_missing_related_entities) =>
               /\ Len(calls) <= 1
               /\ \A i \in 1..Len(calls) :
                      calls[i].call = "upsert_entity" /\ calls[i].args = after
               /\ pc = "done" => Len(calls) = 1

C8_Witness ==
    /\ op = "apply_diff"
    /\ before = << >>
    /\ Len(after) = 1
    /\ ~create_missing_related_entities
    /\ pc = "done"
    /\ Len(calls) = 1

\* C9: Upsert mode selection.  One call of upsert issues, with
\* create_missing_related_entities enabled, one batch_upsert_entities call
\* carrying all input entities and no upsert_entity call; with the flag
\* disabled no batch call and one upsert_entity call per input entity, each
\* entity once.
C9_UpsertMode ==
    op = "apply_diff" =>
        LET batch   == CallsOf({"batch_upsert_entities"})
            written == ArgsOf("upsert_entity")
        IN  /\ create_missing_related_entities =>
                 /\ written = << >>
                 /\ Len(batch) <= 1
                 /\ \A i \in 1..Len(batch) : batch[i].args = entities
                 /\ step = 2 => Len(batch) = 1
            /\ ~create_missing_related_entities =>
                 /\ batch = << >>
                 /\ NoDuplicates(written)
                 /\ Range(written) \subseteq Range(entities)
                 /\ step = 2 => SameElementsOnce(written, entities)

C9_Witness ==
    /\ op = "apply_diff"
    /\ ~create_missing_related_entities
    /\ step = 2
    /\ Len(entities) > 1
    /\ \E i, j \in 1..Len(entities) :
         /\ entities[i].is_using_search_identifier
         /\ ~entities[j].is_using_search_identifier
    /\ SameElementsOnce(ArgsOf("upsert_entity"), entities)

\* C10: Delete mode selection.  One call of delete issues, with
\* delete_dependent_entities enabled, one batch_delete_entities call carrying
\* all given refs and no delete_entity call; with the flag disabled no batch
\* call and one delete_entity call per given ref, also after a delete_entity
\* call that failed.
C10_DeleteMode ==
    LET batch   == CallsOf({"batch_delete_entities"})
        removed == ArgsOf("delete_entity")
    IN  /\ delete_dependent_entities =>
             /\ removed = << >>
             /\ Len(batch) <= 1
             /\ \A i \in 1..Len(batch) : batch[i].args = entities_refs
             /\ DeleteReturned => Len(batch) = 1
        /\ ~delete_dependent_entities =>
             /\ batch = << >>
             /\ NoDuplicates(removed)
             /\ Range(removed) \subseteq Range(entities_refs)
             /\ DeleteReturned => SameElementsOnce(removed, entities_refs)

C10_Witness ==
    /\ ~delete_dependent_entities
    /\ DeleteReturned
    /\ LET cs == CallsOf({"delete_entity"})
       IN  /\ Len(cs) > 1
           /\ cs[1].result = << >>
           /\ SameElementsOnce(ArgsOf("delete_entity"), entities_refs)

\* C11: Best-effort continuation in sequential upsert.  With
\* create_missing_related_entities disabled a failed upsert_entity call does
\* not stop the loop: every entity still gets its call, and the list upsert
\* returns holds exactly the entities whose call succeeded, each once, in the
\* order of the calls.
C11_BestEffortUpsert ==
    (op = "apply_diff" /\ ~create_missing_related_entities) =>
        /\ modified_entities = Written
        /\ NoDuplicates(modified_entities)
        /\ \A i \in 1..Len(calls) :
             (calls[i].call = "upsert_entity" /\ calls[i].result = << >>)
                 => calls[i].args[1] \notin Range(modified_entities)
        /\ step = 2 => SameElementsOnce(ArgsOf("upsert_entity"), entities)

C11_Witness ==
    /\ op = "apply_diff"
    /\ ~create_missing_related_entities
    /\ step = 2
    /\ LET cs == CallsOf({"upsert_entity"})
       IN  /\ Len(cs) > 1
           /\ cs[1].result = << >>
           /\ cs[2].result # << >>
           /\ modified_entities = cs[2].result

\* C12: Failures never raised and the invocation always completes.  Every
\* remote write or delete call is made with should_raise=False, the number of
\* remote calls is bounded by the size of the input, and whatever calls fail
\* the invocation runs to its normal end.
C12_AlwaysCompletes ==
    /\ [](\A i \in 1..Len(calls) :
             calls[i].call \in UpsertCalls \cup DeleteCalls
                 => ~calls[i].should_raise)
    /\ [](pc # "raised")
    /\ [](Len(calls) <= Len(before) + Len(after) + Len(entities_to_delete) + 3)
    /\ <>(pc = "done")

C12_Witness ==
    /\ op = "apply_diff"
    /\ pc = "done"
    /\ \E i \in 1..Len(calls) :
         calls[i].call \in UpsertCalls /\ calls[i].result # calls[i].args
    /\ \E i \in 1..Len(calls) :
         calls[i].call \in DeleteCalls /\ calls[i].result # calls[i].args

\* C13: Diff classification as used by apply_diff.  created and deleted are
\* disjoint; created, modified and deleted partition the identity keys of both
\* inputs; every key of after that is not in before is in created.  Once
\* apply_diff has computed the diff, the entities it submits to upsert have
\* exactly the keys of after and the deletion candidates exactly the keys of
\* before that are absent from after.
C13_DiffClassification ==
    op = "apply_diff" =>
        LET diff == get_port_diff(before, after)
            K(s) == Range(Refs(s))
        IN  /\ K(diff.created) \cap K(diff.deleted) = {}
            /\ K(diff.created) \cap K(diff.modified) = {}
            /\ K(diff.modified) \cap K(diff.deleted) = {}
            /\ K(diff.created) \cup K(diff.modified) \cup K(diff.deleted)
                   = K(before) \cup K(after)
            /\ K(after) \ K(before) \subseteq K(diff.created)
            /\ pc # "apply_diff" =>
                 /\ K(entities) = K(after)
                 /\ NoDuplicates(Refs(entities))
                 /\ Range(entities_to_delete) = K(before) \ K(after)
                 /\ NoDuplicates(entities_to_delete)
                 /\ \A i \in 1..Len(calls) :
                      calls[i].call \in UpsertCalls
                          => Range(Refs(calls[i].args)) \subseteq K(after)

C13_Witness ==
    /\ op = "apply_diff"
    /\ pc = "done"
    /\ LET diff == get_port_diff(before, after)
       IN  /\ diff.created # << >>
           /\ diff.modified # << >>
           /\ diff.deleted # << >>
    /\ CallsOf(UpsertCalls) # << >>

\* C17: Guard output order.  The list _safe_delete hands to delete is a
\* subsequence of the candidate input: the deletable candidates in their input
\* order, none more often than in the input, and no ref that was not a
\* candidate.
C17_GuardOutputOrder ==
    GuardActed =>
        /\ entities_refs \in SubSeqs(entities_to_delete)
        /\ \A i \in 1..Len(entities_to_delete) :
             IsAllowedToDelete(entities_to_delete[i], entities_to_protect,
                               related_entities_refs,
                               create_missing_related_entities)
                 => InList(entities_to_delete[i], entities_refs)
        /\ \A i \in 1..Len(calls) :
             calls[i].call = "batch_delete_entities"
                 => calls[i].args = entities_refs

C17_Witness ==
    /\ GuardActed
    /\ Len(entities_refs) > 1
    /\ entities_refs[1] # entities_refs[2]
    /\ CallsOf(DeleteCalls) # << >>

\* Every candidate of the guard was filtered out.
AllFiltered ==
    /\ GuardActed
    /\ \A i \in 1..Len(entities_to_delete) :
         ~IsAllowedToDelete(entities_to_delete[i], entities_to_protect,
                            related_entities_refs,
                            create_missing_related_entities)

\* C18 as stated: when the guard filters out every candidate of a non-empty
\* candidate set, neither batch_delete_entities nor delete_entity is called.
C18_NoDeleteCallWhenAllFiltered == AllFiltered => CallsOf(DeleteCalls) = << >>

\* C18: when the guard filters out every candidate of a non-empty candidate
\* set, no ref is handed to a remote delete call: delete_entity is never
\* called, and batch_delete_entities, which delete still calls once when
\* delete_dependent_entities is enabled, is given the empty list.
C18_NoRefDeletedWhenAllFiltered ==
    AllFiltered =>
        /\ CallsOf({"delete_entity"}) = << >>
        /\ \A i \in 1..Len(calls) :
             calls[i].call = "batch_delete_entities" => calls[i].args = << >>
        /\ ~delete_dependent_entities => CallsOf(DeleteCalls) = << >>
        /\ (delete_dependent_entities /\ DeleteReturned)
               => Len(CallsOf({"batch_delete_entities"})) = 1

C18_Witness ==
    /\ AllFiltered
    /\ delete_dependent_entities
    /\ DeleteReturned
    /\ entities_to_delete # << >>
    /\ Len(CallsOf({"batch_delete_entities"})) = 1

C15_CommitFollowsAttempt ==
    /\ commits <= 1
    /\ commits = 1 => (msg = "ok" /\ attempt # "no")
    /\ msg \in {"none", "error"} => commits = 0
    /\ (msg = "ok" /\ start_pc \notin {"handle", "commit"}) =>
           (commits = 1 /\ attempt # "no")
    /\ (msg = "ok" /\ start_pc = "commit") => (commits = 0 /\ attempt # "no")

C15_Witness ==
    /\ msg = "ok"
    /\ attempt = "decode_failed"
    /\ commits = 1
    /\ start_pc = "poll"
    /\ "broker_error" \in failures

\* C16: Shutdown on signal.  Once a termination signal was delivered, at any
\* point after construction, start eventually ends and the consumer is closed.
C16_ShutdownOnSignal ==
    (signals > 0) ~> (start_pc \in {"returned", "raised"} /\ consumer = "closed")

\* C19: Once the consumer is closed no further call is made on it: no poll, no
\* commit, no subscribe and no second close.
C19_NoCallAfterClose == misuse = {}

\* C20: A failing message does not stop consumption.  While no signal was
\* delivered, a failure of decoding or processing, a broker-error message and a
\* failing commit are logged and the loop goes on: start does not end and
\* running stays true.
C20_FailureDoesNotStopLoop ==
    signals = 0 =>
        /\ start_pc \notin {"close", "close_after_error", "returned", "raised"}
        /\ start_pc \in {"while", "poll", "handle", "commit"} => running
        /\ consumer = "open"

C20_Witness ==
    /\ signals = 0
    /\ failures = {"broker_error", "decode_failed", "process_failed", "commit"}
    /\ start_pc = "poll"
    /\ running

====
